---- MODULE Spec2Model ----
(***************************************************************************)
(* Model of src/api/app.py: the Flask service that classifies an image     *)
(* with SimpleCNN, explains the prediction with Grad-CAM hooks attached to *)
(* the shared model's conv3 layer, and writes the overlay to output/.      *)
(*                                                                         *)
(* Spec    : the request handlers.  The development server started by      *)
(*           app.run (line 203) serves each request on its own thread, so  *)
(*           requests of different threads interleave.  A step of a thread *)
(*           is one access to the state the threads share: the hook        *)
(*           registries of conv3, the capture fields the hooks write, and  *)
(*           the output directory.                                         *)
(* SpecCam : the arithmetic of the map builder (lines 76-83) on numeric    *)
(*           tensors, in exact rational arithmetic.                        *)
(***************************************************************************)
EXTENDS Integers, Sequences, FiniteSets, TLC

(* ---- bounds ---- *)
MaxRequests == 2
MaxVal == 1

(* worker threads of the server that serve requests concurrently *)
Threads == {1, 2}

(* ---- the file system ---- *)
U_HUMAN == <<"images", "human", "50.jpg">>
U_AI == <<"images", "ai", "50.jpg">>
U_GONE == <<"images", "human", "404.jpg">>
NoUrl == << >>

(* image files that exist under ../ *)
Existing == {U_HUMAN, U_AI}
(* values of the image_url query parameter; NoUrl is the absent parameter *)
Urls == {NoUrl, U_HUMAN, U_AI, U_GONE}

(* the logits model(input_tensor) can give for an image: fc2 has two outputs *)
LogitVals == {0, 1}
LogitPairs == [{0, 1} -> LogitVals]
NoLogits == [i \in {0, 1} |-> 0 - 1]

VARIABLES
  pc,              \* position of each thread in gradcam_endpoint / process_image
  image_url,       \* request.args.get('image_url') of the thread's request
  logits,          \* model(input_tensor) for the thread's input_tensor (eval mode)
  predicted_class, \* process_image local, line 131
  target_class,    \* GradCAM.__call__ local, lines 64-68
  activations,     \* GradCAM.activations of the thread's instance
  gradients,       \* GradCAM.gradients of the thread's instance
  graph,           \* instances whose backward hook is bound into the graph of
                   \* the thread's `output` (line 66)
  cam_map,         \* the tensors lines 76-77 read to build the thread's map
  fwd_hooks,       \* conv3 forward hooks of the instances of running requests
  bwd_hooks,       \* conv3 full backward hooks of the instances of running requests
  leaked_fwd,      \* conv3 forward hooks left by instances of finished requests
  leaked_bwd,      \* conv3 backward hooks left by instances of finished requests
  dirExists,       \* os.path.exists('output')
  files,           \* output/: file name -> url of the image whose overlay it holds
  resp,            \* the response the thread last sent
  started,         \* number of requests received so far
  stages,          \* history: pipeline stages the thread's request has completed
  failed,          \* history: a stage of the thread's request failed
  fwdCount,        \* history: forward passes the request ran
  bwdCount,        \* history: backward passes the request ran
  targets,         \* history: class indices the request's backward passes targeted
  wrote,           \* history: outcome of the request's cv2.imwrite
  missed,          \* history: the request's backward pass did not reach conv3
  pairs,           \* history: (file_class, file_name) of every completed write
  camStep,         \* SpecCam: position in lines 76-83
  camA,            \* SpecCam: self.activations [channel][cell]
  camG,            \* SpecCam: self.gradients [channel][cell]
  camW,            \* SpecCam: weights (numerators over the cell count), line 76
  camRaw,          \* SpecCam: grad_cam_map (numerators over the cell count)
  camOut           \* SpecCam: normalised grad_cam_map, <<numerator, denominator>>

reqVars == <<pc, image_url, logits, predicted_class, target_class, activations,
             gradients, graph, cam_map, resp, started>>
sharedVars == <<fwd_hooks, bwd_hooks, leaked_fwd, leaked_bwd, dirExists, files>>
histVars == <<stages, failed, fwdCount, bwdCount, targets, wrote, missed,
             pairs>>
camVars == <<camStep, camA, camG, camW, camRaw, camOut>>
vars == <<reqVars, sharedVars, histVars, camVars>>

(* ---- values ---- *)
NoClass == 2
NoTensor == [by |-> 0, of |-> "none"]
NoMap == [act |-> NoTensor, grad |-> NoTensor]
NoResp == [code |-> 0, classification |-> "", gradcam_image |-> ""]
AllStages == <<"Received", "Preprocessed", "Predicted", "BackwardDone",
               "MapBuilt", "Rendered", "Persisted", "Returned">>

(* classes = {0: "ai", 1: "human"}; classes.get(predicted_class, "Unknown") *)
classes(c) == IF c = 0 THEN "ai" ELSE IF c = 1 THEN "human" ELSE "Unknown"

Argmax_min(out) == IF out[1] < out[0] THEN 1 ELSE 0

(* torch.argmax over the two logits: the first index of the maximum *)
Argmax(out) == IF out[1] > out[0] THEN 1 ELSE 0

(* os.path.join('..', image_path) followed by split("/"): the path segments *)
JoinSplit(url) == <<"..">> \o url

(* image_path.split("/")[-2] and [-1] *)
FileClass(path) == path[Len(path) - 1]
FileName(path) == path[Len(path)]

OutputFilename_noGroup(path) == FileName(path)

(* output_filename = f"{file_class}_{file_name}", line 147 *)
OutputFilename(path) == FileClass(path) \o "_" \o FileName(path)

(* os.path.join(output_dir, output_filename), line 148 *)
OutputFilepath(path) == "output/" \o OutputFilename(path)

OpenOk_any(url) == TRUE

(* Image.open(image_path) succeeds exactly for the files that exist, line 125 *)
OpenOk(url) == url \in Existing

(* lines 67-68: the class the backward pass is seeded with *)
TargetClass(tc, output) == IF tc = NoClass THEN Argmax(output) ELSE tc

(* forward_hook (lines 54-55) of every instance registered on conv3 runs when *)
(* thread r's forward pass executes conv3                                     *)
FireForward(r, kind) ==
  [t \in Threads |->
     IF t \in fwd_hooks THEN [by |-> r, of |-> kind] ELSE activations[t]]

(* backward_hook (lines 57-58) of every instance bound into thread r's graph *)
(* runs when r's backward pass reaches conv3                                 *)
FireBackward(r) ==
  [t \in Threads |->
     IF t \in graph[r] THEN [by |-> r, of |-> "grad"] ELSE gradients[t]]

(* cv2.imwrite(output_filepath, ...) creates or overwrites one file, line 149 *)
PutFile(fs, name, content) ==
  [n \in (DOMAIN fs) \cup {name} |-> IF n = name THEN content ELSE fs[n]]

Append1(r, stage) == [stages EXCEPT ![r] = Append(@, stage)]

(* the request of thread r ends: its locals and its GradCAM instance die.  A  *)
(* hook the instance still has on conv3 stays registered (and bound into the  *)
(* graphs that hold it), writing to an object no request reads.               *)
EndRequest(r) ==
  /\ pc' = [pc EXCEPT ![r] = "idle"]
  /\ image_url' = [image_url EXCEPT ![r] = NoUrl]
  /\ logits' = [logits EXCEPT ![r] = NoLogits]
  /\ predicted_class' = [predicted_class EXCEPT ![r] = NoClass]
  /\ target_class' = [target_class EXCEPT ![r] = NoClass]
  /\ activations' = [activations EXCEPT ![r] = NoTensor]
  /\ gradients' = [gradients EXCEPT ![r] = NoTensor]
  /\ graph' = [t \in Threads |-> IF t = r THEN {} ELSE graph[t] \ {r}]
  /\ cam_map' = [cam_map EXCEPT ![r] = NoMap]
  /\ fwd_hooks' = fwd_hooks \ {r}
  /\ bwd_hooks' = bwd_hooks \ {r}
  /\ leaked_fwd' = leaked_fwd + (IF r \in fwd_hooks THEN 1 ELSE 0)
  /\ leaked_bwd' = leaked_bwd + (IF r \in bwd_hooks THEN 1 ELSE 0)
  /\ fwdCount' = [fwdCount EXCEPT ![r] = 0]
  /\ bwdCount' = [bwdCount EXCEPT ![r] = 0]
  /\ targets' = [targets EXCEPT ![r] = {}]
  /\ missed' = [missed EXCEPT ![r] = FALSE]

(* ---- initial state: module import, lines 12-118 ---- *)
EmptyTensor == [c \in {} |-> 0]

CamIdle ==
  /\ camStep = "off"
  /\ camA = EmptyTensor
  /\ camG = EmptyTensor
  /\ camW = EmptyTensor
  /\ camRaw = EmptyTensor
  /\ camOut = EmptyTensor

ServerInit ==
  /\ pc = [r \in Threads |-> "idle"]
  /\ image_url = [r \in Threads |-> NoUrl]
  /\ logits = [r \in Threads |-> NoLogits]
  /\ predicted_class = [r \in Threads |-> NoClass]
  /\ target_class = [r \in Threads |-> NoClass]
  /\ activations = [r \in Threads |-> NoTensor]
  /\ gradients = [r \in Threads |-> NoTensor]
  /\ graph = [r \in Threads |-> {}]
  /\ cam_map = [r \in Threads |-> NoMap]
  /\ fwd_hooks = {}
  /\ bwd_hooks = {}
  /\ leaked_fwd = 0
  /\ leaked_bwd = 0
  /\ dirExists = FALSE   \* output/ is created by the first request, line 146
  /\ files = [n \in {} |-> NoUrl]
  /\ resp = [r \in Threads |-> NoResp]
  /\ started = 0
  /\ stages = [r \in Threads |-> << >>]
  /\ failed = [r \in Threads |-> FALSE]
  /\ fwdCount = [r \in Threads |-> 0]
  /\ bwdCount = [r \in Threads |-> 0]
  /\ targets = [r \in Threads |-> {}]
  /\ wrote = [r \in Threads |-> "none"]
  /\ missed = [r \in Threads |-> FALSE]
  /\ pairs = {}

Init == ServerInit /\ CamIdle

(* ---- gradcam_endpoint: except Exception as e -> 500, lines 168-169 ---- *)
Abort(r) ==
  /\ EndRequest(r)
  /\ resp' = [resp EXCEPT ![r] = [code |-> 500, classification |-> "",
                                  gradcam_image |-> ""]]
  /\ failed' = [failed EXCEPT ![r] = TRUE]
  /\ UNCHANGED <<started, dirExists, files, stages, wrote, missed, pairs, camVars>>

(* ---- gradcam_endpoint entry, lines 157-162 ---- *)
Receive(r, u) ==
  /\ pc[r] = "idle"
  /\ started < MaxRequests
  /\ started' = started + 1
  /\ failed' = [failed EXCEPT ![r] = FALSE]
  /\ wrote' = [wrote EXCEPT ![r] = "none"]
  /\ IF u = NoUrl
     THEN /\ resp' = [resp EXCEPT ![r] = [code |-> 400, classification |-> "",
                                          gradcam_image |-> ""]]
          /\ stages' = [stages EXCEPT ![r] = << >>]
          /\ UNCHANGED <<pc, image_url>>
     ELSE /\ resp' = [resp EXCEPT ![r] = NoResp]
          /\ stages' = [stages EXCEPT ![r] = <<"Received">>]
          /\ pc' = [pc EXCEPT ![r] = "open"]
          /\ image_url' = [image_url EXCEPT ![r] = u]
  /\ UNCHANGED <<logits, predicted_class, target_class, activations, gradients,
                 graph, cam_map, sharedVars, fwdCount, bwdCount, targets, missed,
                 pairs, camVars>>

(* ---- process_image, lines 124-126: the image read fixes what the network ---- *)
(* ---- computes for it, whichever weights model.pth holds                   ---- *)
Open(r) ==
  /\ pc[r] = "open"
  /\ IF OpenOk(image_url[r])
     THEN /\ \E l \in LogitPairs : logits' = [logits EXCEPT ![r] = l]
          /\ pc' = [pc EXCEPT ![r] = "predict"]
          /\ stages' = Append1(r, "Preprocessed")
          /\ UNCHANGED <<image_url, predicted_class, target_class, activations,
                         gradients, graph, cam_map, resp, started, sharedVars,
                         failed, fwdCount, bwdCount, targets, wrote, missed, pairs,
                         camVars>>
     ELSE Abort(r)

(* ---- process_image, lines 129-131: the prediction pass ---- *)
Predict(r) ==
  /\ pc[r] = "predict"
  /\ \E ok \in BOOLEAN :
       IF ok
       THEN /\ activations' = FireForward(r, "pred")
            /\ fwdCount' = [fwdCount EXCEPT ![r] = @ + 1]
            /\ predicted_class' = [predicted_class EXCEPT ![r] = Argmax(logits[r])]
            /\ stages' = Append1(r, "Predicted")
            /\ pc' = [pc EXCEPT ![r] = "new_cam"]
            /\ UNCHANGED <<image_url, logits, target_class, gradients, graph,
                           cam_map, resp, started, sharedVars, failed, bwdCount,
                           targets, wrote, missed, pairs, camVars>>
       ELSE Abort(r)

(* ---- process_image line 134: GradCAM.__init__, lines 46-50, and line 60 ---- *)
NewCam(r) ==
  /\ pc[r] = "new_cam"
  /\ activations' = [activations EXCEPT ![r] = NoTensor]
  /\ gradients' = [gradients EXCEPT ![r] = NoTensor]
  /\ fwd_hooks' = fwd_hooks \cup {r}
  /\ pc' = [pc EXCEPT ![r] = "reg_bwd"]
  /\ UNCHANGED <<image_url, logits, predicted_class, target_class, graph, cam_map,
                 resp, started, bwd_hooks, leaked_fwd, leaked_bwd, dirExists,
                 files, histVars, camVars>>

(* ---- GradCAM._register_hooks, lines 61-62 ---- *)
RegisterBackward(r) ==
  /\ pc[r] = "reg_bwd"
  /\ bwd_hooks' = bwd_hooks \cup {r}
  /\ pc' = [pc EXCEPT ![r] = "cam_fwd"]
  /\ UNCHANGED <<image_url, logits, predicted_class, target_class, activations,
                 gradients, graph, cam_map, resp, started, fwd_hooks, leaked_fwd,
                 leaked_bwd, dirExists, files, histVars, camVars>>

(* ---- GradCAM.__call__, lines 65-71: the Grad-CAM forward pass.  conv3 binds ---- *)
(* ---- the backward hooks registered at this moment into the graph of output ---- *)
CamForward(r) ==
  /\ pc[r] = "cam_fwd"
  /\ \E ok \in BOOLEAN :
       IF ok
       THEN /\ graph' = [graph EXCEPT ![r] = bwd_hooks]
            /\ activations' = FireForward(r, "cam")
            /\ fwdCount' = [fwdCount EXCEPT ![r] = @ + 1]
            /\ target_class' =
                 [target_class EXCEPT
                    ![r] = TargetClass(predicted_class[r], logits[r])]
            /\ pc' = [pc EXCEPT ![r] = "cam_bwd"]
            /\ UNCHANGED <<image_url, logits, predicted_class, gradients, cam_map,
                           resp, started, sharedVars, stages, failed, bwdCount,
                           targets, wrote, missed, pairs, camVars>>
       ELSE Abort(r)

(* ---- GradCAM.__call__, lines 73-74: the backward pass seeded with one_hot. ---- *)
(* "reach": it reaches the target layer and the bound backward hooks run;      *)
(* "raise": it raises before it gets there; "miss": it completes without       *)
(* running the hooks, which is what GradCAM(model, target_layer) gets for a    *)
(* target layer that is not on the path from the seeded output.                *)
CamBackward(r) ==
  /\ pc[r] = "cam_bwd"
  /\ \E outcome \in {"reach", "miss", "raise"} :
       IF outcome = "raise"
       THEN Abort(r)
       ELSE /\ gradients' = IF outcome = "reach" THEN FireBackward(r) ELSE gradients
            /\ bwdCount' = [bwdCount EXCEPT ![r] = @ + 1]
            /\ targets' = [targets EXCEPT ![r] = @ \cup {target_class[r]}]
            /\ missed' = [missed EXCEPT ![r] = (outcome = "miss")]
            /\ stages' = Append1(r, "BackwardDone")
            /\ pc' = [pc EXCEPT ![r] = "build"]
            /\ UNCHANGED <<image_url, logits, predicted_class, target_class,
                           activations, graph, cam_map, resp, started, sharedVars,
                           failed, fwdCount, wrote, pairs, camVars>>

(* ---- GradCAM.__call__, lines 76-84: torch.mean(None, ...) raises TypeError ---- *)
CamBuild(r) ==
  /\ pc[r] = "build"
  /\ IF gradients[r] = NoTensor \/ activations[r] = NoTensor
     THEN Abort(r)
     ELSE /\ cam_map' = [cam_map EXCEPT ![r] = [act |-> activations[r],
                                                grad |-> gradients[r]]]
          /\ stages' = Append1(r, "MapBuilt")
          /\ pc' = [pc EXCEPT ![r] = "rm_fwd"]
          /\ UNCHANGED <<image_url, logits, predicted_class, target_class,
                         activations, gradients, graph, resp, started, sharedVars,
                         failed, fwdCount, bwdCount, targets, wrote, missed,
                         pairs, camVars>>

(* ---- GradCAM.remove_hooks, lines 87-88: first handle ---- *)
RemoveForward(r) ==
  /\ pc[r] = "rm_fwd"
  /\ fwd_hooks' = fwd_hooks \ {r}
  /\ pc' = [pc EXCEPT ![r] = "rm_bwd"]
  /\ UNCHANGED <<image_url, logits, predicted_class, target_class, activations,
                 gradients, graph, cam_map, resp, started, bwd_hooks, leaked_fwd,
                 leaked_bwd, dirExists, files, histVars, camVars>>

(* ---- GradCAM.remove_hooks, lines 87-88: second handle ---- *)
RemoveBackward(r) ==
  /\ pc[r] = "rm_bwd"
  /\ bwd_hooks' = bwd_hooks \ {r}
  /\ pc' = [pc EXCEPT ![r] = "render"]
  /\ UNCHANGED <<image_url, logits, predicted_class, target_class, activations,
                 gradients, graph, cam_map, resp, started, fwd_hooks, leaked_fwd,
                 leaked_bwd, dirExists, files, histVars, camVars>>

(* ---- process_image line 139: get_heatmap_on_image, lines 93-100 ---- *)
Render(r) ==
  /\ pc[r] = "render"
  /\ \E ok \in BOOLEAN :
       IF ok
       THEN /\ stages' = Append1(r, "Rendered")
            /\ pc' = [pc EXCEPT ![r] = "check_dir"]
            /\ UNCHANGED <<image_url, logits, predicted_class, target_class,
                           activations, gradients, graph, cam_map, resp, started,
                           sharedVars, failed, fwdCount, bwdCount, targets, wrote, missed,
                           pairs, camVars>>
       ELSE Abort(r)

(* ---- process_image lines 142-145: if not os.path.exists(output_dir) ---- *)
CheckDir(r) ==
  /\ pc[r] = "check_dir"
  /\ pc' = [pc EXCEPT ![r] = IF dirExists THEN "write" ELSE "makedirs"]
  /\ UNCHANGED <<image_url, logits, predicted_class, target_class, activations,
                 gradients, graph, cam_map, resp, started, sharedVars, histVars,
                 camVars>>

(* ---- process_image line 146: os.makedirs raises FileExistsError ---- *)
MakeDirs(r) ==
  /\ pc[r] = "makedirs"
  /\ IF dirExists
     THEN Abort(r)
     ELSE /\ dirExists' = TRUE
          /\ pc' = [pc EXCEPT ![r] = "write"]
          /\ UNCHANGED <<image_url, logits, predicted_class, target_class,
                         activations, gradients, graph, cam_map, resp, started,
                         fwd_hooks, bwd_hooks, leaked_fwd, leaked_bwd, files,
                         histVars, camVars>>

(* ---- process_image lines 147-151 and gradcam_endpoint lines 164-167.     ---- *)
(* cv2.imwrite writes the file ("ok"), returns False without writing          *)
(* ("false": its result is not looked at), or raises ("raise").               *)
Persist(r) ==
  /\ pc[r] = "write"
  /\ \E outcome \in {"ok", "false", "raise"} :
       IF outcome = "raise"
       THEN Abort(r)
       ELSE LET path == JoinSplit(image_url[r]) IN
            /\ EndRequest(r)
            /\ files' = IF outcome = "ok"
                        THEN PutFile(files, OutputFilename(path), image_url[r])
                        ELSE files
            /\ pairs' = IF outcome = "ok"
                        THEN pairs \cup {<<FileClass(path), FileName(path)>>}
                        ELSE pairs
            /\ wrote' = [wrote EXCEPT ![r] = IF outcome = "ok" THEN "ok" ELSE "fail"]
            /\ failed' = [failed EXCEPT ![r] = (outcome # "ok")]
            /\ stages' = [stages EXCEPT ![r] = @ \o <<"Persisted", "Returned">>]
            /\ resp' = [resp EXCEPT
                          ![r] = [code |-> 200,
                                  classification |-> classes(predicted_class[r]),
                                  gradcam_image |-> OutputFilepath(path)]]
            /\ UNCHANGED <<started, dirExists, camVars>>

(* ---- clear, lines 171-184 ---- *)
Clear ==
  /\ files' = IF dirExists THEN [n \in {} |-> NoUrl] ELSE files
  /\ UNCHANGED <<reqVars, fwd_hooks, bwd_hooks, leaked_fwd, leaked_bwd, dirExists,
                 histVars, camVars>>

Next ==
  \/ \E r \in Threads, u \in Urls : Receive(r, u)
  \/ \E r \in Threads : Open(r)
  \/ \E r \in Threads : Predict(r)
  \/ \E r \in Threads : NewCam(r)
  \/ \E r \in Threads : RegisterBackward(r)
  \/ \E r \in Threads : CamForward(r)
  \/ \E r \in Threads : CamBackward(r)
  \/ \E r \in Threads : CamBuild(r)
  \/ \E r \in Threads : RemoveForward(r)
  \/ \E r \in Threads : RemoveBackward(r)
  \/ \E r \in Threads : Render(r)
  \/ \E r \in Threads : CheckDir(r)
  \/ \E r \in Threads : MakeDirs(r)
  \/ \E r \in Threads : Persist(r)
  \/ Clear

Spec == Init /\ [][Next]_vars

(***************************************************************************)
(* The map builder, GradCAM.__call__ lines 76-83, on numeric tensors.      *)
(* A tensor of shape [1, C, h, w] is a function channel -> cell -> value   *)
(* over Channels and the h*w Cells.  Values are exact: a mean over the     *)
(* cells is kept as its numerator over Cardinality(Cells), and a           *)
(* normalised value as the pair <<numerator, denominator>>.                *)
(***************************************************************************)
Channels == {1, 2}
Cells == {1, 2}
Vals == (0 - MaxVal)..MaxVal
Tensors == [Channels -> [Cells -> Vals]]

(* 1 / 1e-8, the reciprocal of the epsilon of line 82 *)
EpsInv == 100000000

RECURSIVE SumOver(_, _)
SumOver(f, S) ==
  IF S = {} THEN 0
  ELSE LET x == CHOOSE y \in S : TRUE IN f[x] + SumOver(f, S \ {x})

MinOf(f) == CHOOSE m \in {f[x] : x \in DOMAIN f} : \A x \in DOMAIN f : m <= f[x]
MaxOf(f) == CHOOSE m \in {f[x] : x \in DOMAIN f} : \A x \in DOMAIN f : m >= f[x]

(* line 76: torch.mean(self.gradients, dim=(2, 3)), as numerators over |Cells| *)
ChannelWeights(G) == [c \in Channels |-> SumOver(G[c], Cells)]

(* line 77: torch.sum(weights * self.activations, dim=1) *)
WeightedSum(W, A) ==
  [x \in Cells |-> SumOver([c \in Channels |-> W[c] * A[c][x]], Channels)]

(* line 78: F.relu *)
Relu(M) == [x \in Cells |-> IF M[x] > 0 THEN M[x] ELSE 0]

(* line 81: grad_cam_map - grad_cam_map.min() *)
SubtractMin(M) == [x \in Cells |-> M[x] - MinOf(M)]

NormDen_noEps(mx) == mx * EpsInv

(* line 82: the divisor grad_cam_map.max() + 1e-8, scaled by EpsInv * |Cells| *)
NormDen(mx) == mx * EpsInv + Cardinality(Cells)

(* line 82: grad_cam_map / (grad_cam_map.max() + 1e-8) *)
Normalize(M) == [x \in Cells |-> <<M[x] * EpsInv, NormDen(MaxOf(M))>>]

InitCam ==
  /\ ServerInit
  /\ camStep = "captured"
  /\ camA \in Tensors
  /\ camG \in Tensors
  /\ camW = EmptyTensor
  /\ camRaw = EmptyTensor
  /\ camOut = EmptyTensor

(* ---- lines 76-78: weights, weighted channel sum, rectification ---- *)
CamRaw ==
  /\ camStep = "captured"
  /\ camW' = ChannelWeights(camG)
  /\ camRaw' = Relu(WeightedSum(ChannelWeights(camG), camA))
  /\ camStep' = "rectified"
  /\ UNCHANGED <<reqVars, sharedVars, histVars, camA, camG, camOut>>

(* ---- lines 81-83: min-max normalisation with epsilon ---- *)
CamNormalize ==
  /\ camStep = "rectified"
  /\ camOut' = Normalize(SubtractMin(camRaw))
  /\ camStep' = "normalized"
  /\ UNCHANGED <<reqVars, sharedVars, histVars, camA, camG, camW, camRaw>>

NextCam == CamRaw \/ CamNormalize

SpecCam == InitCam /\ [][NextCam]_vars

(***************************************************************************)
(* Properties                                                              *)
(***************************************************************************)
IsPrefix(s, t) == Len(s) <= Len(t) /\ \A i \in 1..Len(s) : s[i] = t[i]

AfterGradCam == {"rm_fwd", "rm_bwd", "render", "check_dir", "makedirs", "write"}

\* C1: with two requests running at once, each with its own GradCAM instance
\* hooked on the shared conv3, the activation and the gradient a request builds
\* its map from are the ones of its own forward and backward pass.
C1_OwnTensors ==
  \A r \in Threads :
    cam_map[r] # NoMap => cam_map[r].act.by = r /\ cam_map[r].grad.by = r

\* C2: a call of process_image that got past the Grad-CAM call has run exactly
\* one forward pass and exactly one backward pass, the backward pass targeted
\* exactly one class index, and the captured tensors come from that pass pair.
C2_OnePassPair ==
  \A r \in Threads :
    pc[r] \in AfterGradCam =>
      /\ fwdCount[r] = 1
      /\ bwdCount[r] = 1
      /\ Cardinality(targets[r]) = 1
      /\ cam_map[r].act.by = r
      /\ cam_map[r].grad.by = r

\* C3: when no request is in flight, whatever the requests served so far did
\* (returned or failed at any stage), no Grad-CAM hook is attached to conv3.
C3_NoHooksWhenIdle ==
  (\A r \in Threads : pc[r] = "idle") =>
    /\ fwd_hooks = {} /\ bwd_hooks = {}
    /\ leaked_fwd = 0 /\ leaked_bwd = 0

\* C4: the stages of a request are a prefix of Received, Preprocessed, Predicted,
\* BackwardDone, MapBuilt, Rendered, Persisted, Returned, and a request one of
\* whose stages failed ends with an error response, not with Returned.
C4_StagesInOrder ==
  \A r \in Threads :
    /\ IsPrefix(stages[r], AllStages)
    /\ failed[r] =>
         /\ resp[r].code = 500
         /\ stages[r] # AllStages

\* C5: when a request returns its result, the label returned is the label of a
\* top-1 index of the logits of its image, and the one class its backward pass
\* targeted is that same index.
C5_LabelIsArgmaxAndTarget ==
  [][\A r \in Threads :
       (pc[r] = "write" /\ resp'[r].code = 200) =>
         \E i \in {0, 1} :
           /\ logits[r][i] >= logits[r][0] /\ logits[r][i] >= logits[r][1]
           /\ (logits[r][1] > logits[r][0] => i = 1)
           /\ (logits[r][0] > logits[r][1] => i = 0)
           /\ targets[r] = {i}
           /\ resp'[r].classification = (IF i = 0 THEN "ai" ELSE "human")]_vars

C5_Witness ==
  \E r \in Threads : resp[r].code = 200 /\ resp[r].classification = "human"

\* C6: a request returns a success result only if its overlay file was written.
C6_SuccessOnlyIfWritten ==
  \A r \in Threads : resp[r].code = 200 => wrote[r] = "ok"

C8_UnopenableIsError ==
  /\ [](\A r \in Threads : image_url[r] = U_GONE => pc[r] = "open")
  /\ [][\A r \in Threads :
          (image_url[r] = U_GONE /\ pc'[r] # pc[r]) =>
            /\ resp'[r].code = 500
            /\ pc'[r] = "idle"
            /\ files' = files
            /\ dirExists' = dirExists]_vars

C8_Witness ==
  \E r \in Threads :
    /\ resp[r].code = 500
    /\ stages[r] = <<"Received">>
    /\ \E t \in Threads : t # r /\ resp[t].code = 200 /\ wrote[t] = "ok"

\* C9: every file of output/ is named {group}_{basename} after the parent
\* segment and the last segment of the image path it was written for, a step
\* adds at most one file, and output/ never holds more files than distinct
\* (group, basename) pairs were written: a repeated path overwrites.
C9_OneFilePerPair ==
  /\ [](/\ Cardinality(DOMAIN files) <= Cardinality(pairs)
        /\ \A n \in DOMAIN files :
             /\ Len(files[n]) >= 1
             /\ n = JoinSplit(files[n])[Len(files[n])] \o "_"
                      \o files[n][Len(files[n])]
             /\ <<JoinSplit(files[n])[Len(files[n])], files[n][Len(files[n])]>>
                  \in pairs)
  /\ [][Cardinality((DOMAIN files') \ (DOMAIN files)) <= 1]_vars

C9_Witness ==
  /\ \A r \in Threads : resp[r].code = 200 /\ wrote[r] = "ok"
  /\ resp[1].gradcam_image = resp[2].gradcam_image
  /\ Cardinality(DOMAIN files) = 1

\* C10: every value of the normalised map lies in [0,1] (numerator between 0
\* and a positive denominator), for every activation and gradient, and a raw
\* map that is zero everywhere gives a map that is zero everywhere.
C10_MapInUnitInterval ==
  camStep = "normalized" =>
    /\ \A x \in Cells :
         /\ camOut[x][2] > 0
         /\ 0 <= camOut[x][1]
         /\ camOut[x][1] <= camOut[x][2]
    /\ (\A x \in Cells : camRaw[x] = 0) => (\A x \in Cells : camOut[x][1] = 0)

C10_Witness ==
  /\ camStep = "normalized"
  /\ \A c \in Channels, x \in Cells : camG[c][x] = 0
  /\ \E c \in Channels, x \in Cells : camA[c][x] # 0
  /\ \A x \in Cells : camOut[x][1] = 0

====
